---- MODULE Spec2Model ----
(***************************************************************************)
(* Model of include/DataFrame/DataFrameMLVisitors.h: KMeansVisitor and     *)
(* AffinityPropVisitor.                                                    *)
(*                                                                         *)
(* Numbers.  A value of type T is kept as an integer in fixed point: a     *)
(* column holds multiples of 1/res, and every T value of the centroid      *)
(* engine is an integer count of 1/(res * Den(n)), Den(n) = lcm(1..n), so  *)
(* that a sum of column values divided by a count 1..n is exact.  A double *)
(* returned by the distance function is an integer in the unit the         *)
(* function induces (the square of the T unit for the squared difference,  *)
(* the T unit for the absolute difference).  The messages of the exemplar  *)
(* engine are integers in units of 1/DampDen^(2 * iter_num_): a round      *)
(* divides by DampDen twice (damping factor dfactor_/DampDen), so the      *)
(* damped updates are exact.  Rounding                                     *)
(* of IEEE doubles, NaN and infinities are outside the model.              *)
(* Arrays indexed by the code from 0 are functions on 0..size-1; vectors   *)
(* built with push_back are sequences.  A pointer into the column is       *)
(* <<"col", j>>, a pointer to k_means_[i] is <<"mean", i>>.                *)
(***************************************************************************)
EXTENDS Integers, Sequences, FiniteSets

\* ---- bounds of the model
MaxK == 2
MaxN == 3
MaxIter == 3
MaxRounds == 2
MaxCalls == 2

\* ---- program constants
\* 0.0000001 = 1 / EpsInv
EpsInv == 10000000
\* std::numeric_limits<double>::max()
DblMax == 2147483647
\* the damping factor is dfactor_ / DampDen (default 0.9 = 9/10)
DampDen == 10

\* raw column values (multiples of 1/res) and units per 1.0 of the raw values
ColVals == {0, 1, 20}
APColVals == {0, 1, 3}
Resolutions == {10000}
DistFuncs == {"sq", "abs"}
Dampings == {0, 5, 9}

VARIABLES
    engine,        \* which visitor the instance is: "kmeans" or "affinity"
    col,           \* the column, [0..n-1 -> T]
    res,           \* raw units per 1.0
    K,             \* template parameter K (0 for the exemplar engine)
    iter_num_,     \* iteration cap
    dfunc_,        \* distance function
    dfactor_,      \* damping factor numerator
    pc,            \* "constructed", "loop", "rounds", "computed"
    k_means_,      \* KMeansVisitor::k_means_
    assignments,   \* local of calc_k_means_
    new_means,     \* local of calc_k_means_: sums per cluster
    counts,        \* local of calc_k_means_
    value,         \* local of calc_k_means_: new centroid per cluster
    done,          \* local of calc_k_means_
    iter,          \* loop variable of calc_k_means_
    seeds,         \* local of calc_k_means_: the K positions rd_gen drew
    centers_,      \* AffinityPropVisitor::centers_, positions pointed to
    simil,         \* local of operator(): packed similarity matrix
    avail,         \* local of operator()
    respon,        \* local of operator()
    m,             \* loop variable of get_avail_and_respon
    ncalls,        \* operator() calls made on the exemplar engine
    clusters,      \* <<value returned by the last get_clusters>>, or <<>>
    result         \* <<value returned by the last get_result>>, or <<>>

vars == <<engine, col, res, K, iter_num_, dfunc_, dfactor_, pc, k_means_,
          assignments, new_means, counts, value, done, iter, seeds, centers_,
          simil, avail, respon, m, ncalls, clusters, result>>

params == <<engine, col, res, K, iter_num_, dfunc_, dfactor_>>
kmLocals == <<assignments, new_means, counts, value, done, iter, seeds>>
apLocals == <<simil, avail, respon, m>>

\* ---- arithmetic helpers
Abs(x) == IF x < 0 THEN 0 - x ELSE x
Max2(a, b) == IF a > b THEN a ELSE b
Min2(a, b) == IF a < b THEN a ELSE b

RECURSIVE GCD(_, _)
GCD(a, b) == IF b = 0 THEN a ELSE GCD(b, a % b)

RECURSIVE Den(_)
Den(n) == IF n <= 1 THEN 1 ELSE (n * Den(n - 1)) \div GCD(n, Den(n - 1))

RECURSIVE Pow(_, _)
Pow(b, e) == IF e = 0 THEN 1 ELSE b * Pow(b, e - 1)

Size(c) == Cardinality(DOMAIN c)
Zeros(n) == [i \in 0..(n - 1) |-> 0]

\* the distance function: the default squared difference, or a supplied
\* absolute difference
Dfunc(f, x, y) == IF f = "sq" THEN (x - y) * (x - y) ELSE Abs(x - y)

\* floor of 1e-7 in the unit of a distance between values of unit
\* 1/(r * Den(n)); an integer distance d exceeds 1e-7 iff d > EpsUnits
EpsUnits(f, n, r) ==
    IF f = "sq"
    THEN Den(n) * Den(n) * ((r * r) \div EpsInv)
         + (Den(n) * Den(n) * ((r * r) % EpsInv)) \div EpsInv
    ELSE (Den(n) * r) \div EpsInv

\* dfunc_(value, k_means_[cluster]) > 0.0000001
Far(f, x, y, n, r) == Dfunc(f, x, y) > EpsUnits(f, n, r)

\* ---- KMeansVisitor::calc_k_means_

\* the inner loop over the clusters that finds the nearest centroid
RECURSIVE BestCluster(_, _, _, _, _, _, _)
BestCluster(f, x, means, k, cluster, best_distance, best_cluster) ==
    IF cluster >= k THEN best_cluster
    ELSE LET distance == Dfunc(f, x, means[cluster])
         IN  IF distance < best_distance
             THEN BestCluster(f, x, means, k, cluster + 1, distance, cluster)
             ELSE BestCluster(f, x, means, k, cluster + 1, best_distance,
                              best_cluster)

FindAssignments(f, c, means, k) ==
    [point \in DOMAIN c |-> BestCluster(f, c[point], means, k, 0, DblMax, 0)]

\* sum and count of the points 0..point-1 assigned to a cluster
RECURSIVE SumUp(_, _, _, _)
SumUp(c, asg, cluster, point) ==
    IF point = 0 THEN 0
    ELSE SumUp(c, asg, cluster, point - 1)
         + (IF asg[point - 1] = cluster THEN c[point - 1] ELSE 0)

RECURSIVE CountUp(_, _, _)
CountUp(asg, cluster, point) ==
    IF point = 0 THEN 0
    ELSE CountUp(asg, cluster, point - 1)
         + (IF asg[point - 1] = cluster THEN 1 ELSE 0)

\* mutant: the count is bumped instead of floored at 1
Divisor_Bumped(count) == count + 1

\* std::max<double>(1.0, counts[cluster])
Divisor(count) == Max2(1, count)

\* new_means[cluster] / count
NewValue(sum, count) == sum \div Divisor(count)

\* mutant: the new mean is stored whatever the convergence test says
Adopt_Always(f, val, old, n, r) == val

\* the centroid stored for a cluster after the convergence test
Adopt(f, val, old, n, r) == IF Far(f, val, old, n, r) THEN val ELSE old

\* mutant: the loop test lets one more iteration through
LoopContinues_OffByOne(dn, it, cap) == (~dn) /\ it <= cap

\* the loop goes on after an iteration: no break and iter < iter_num_
LoopContinues(dn, it, cap) == (~dn) /\ it < cap

\* ---- KMeansVisitor::get_clusters

\* the inner loop over the centroids; min_idx is not initialised by the code,
\* so it starts as whatever the stack holds
RECURSIVE MinIdx(_, _, _, _, _, _, _)
MinIdx(f, x, means, k, i, min_dist, min_idx) ==
    IF i >= k THEN min_idx
    ELSE LET dist == Dfunc(f, x, means[i])
         IN  IF dist < min_dist
             THEN MinIdx(f, x, means, k, i + 1, dist, i)
             ELSE MinIdx(f, x, means, k, i + 1, min_dist, min_idx)

\* the first loop: every group starts with a pointer to its centroid
CentroidEntries(k) == [i \in 0..(k - 1) |-> << <<"mean", i>> >>]

\* the second loop, from position j on: push a pointer to col[j] on the
\* group of the nearest centroid
RECURSIVE PushPoints(_, _, _, _, _, _, _)
PushPoints(f, c, means, k, garbage, j, cl) ==
    IF j >= Size(c) THEN cl
    ELSE LET min_idx == MinIdx(f, c[j], means, k, 0, DblMax, garbage)
         IN  PushPoints(f, c, means, k, garbage, j + 1,
                        [cl EXCEPT ![min_idx] = Append(@, <<"col", j>>)])

\* mutant: the loop over the points starts at position 1
KMeansClusters_SkipFirst(f, c, means, k, garbage) ==
    PushPoints(f, c, means, k, garbage, 1, CentroidEntries(k))

KMeansClusters(f, c, means, k, garbage) ==
    PushPoints(f, c, means, k, garbage, 0, CentroidEntries(k))

\* ---- initial states

Columns(vals, lo, hi) == UNION {[0..(n - 1) -> vals] : n \in lo..hi}

\* the column of a centroid engine in fixed point
Scaled(raw) == [i \in DOMAIN raw |-> raw[i] * Den(Size(raw))]

InitCommon ==
    /\ dfunc_ \in DistFuncs
    /\ pc = "constructed"
    /\ assignments = <<>> /\ new_means = <<>> /\ counts = <<>>
    /\ value = <<>> /\ done = FALSE /\ iter = 0 /\ seeds = <<>>
    /\ centers_ = <<>>
    /\ simil = <<>> /\ avail = <<>> /\ respon = <<>> /\ m = 0
    /\ ncalls = 0
    /\ clusters = <<>>
    /\ result = <<>>

InitKMeans ==
    /\ engine = "kmeans"
    /\ K \in 1..MaxK
    /\ \E raw \in Columns(ColVals, K, MaxN) : col = Scaled(raw)
    /\ res \in Resolutions
    /\ iter_num_ \in 1..MaxIter
    /\ dfactor_ = 0
    /\ k_means_ = Zeros(K)
    /\ InitCommon

\* ---- KMeansVisitor actions

\* mutant: one draw of rd_gen seeds every centroid
SeedCentroids_OneDraw(c, rd_gen, k) == [cluster \in 0..(k - 1) |-> c[rd_gen[0]]]

\* k_mean = col[rd_gen(gen)] for every centroid
SeedCentroids(c, rd_gen, k) == [cluster \in 0..(k - 1) |-> c[rd_gen[cluster]]]

\* operator() up to the first iteration: the centroids are seeded from K
\* random positions of the column
KM_Compute ==
    /\ engine = "kmeans"
    /\ pc = "constructed"
    /\ \E rd_gen \in [0..(K - 1) -> DOMAIN col] :
           /\ seeds' = rd_gen
           /\ k_means_' = SeedCentroids(col, rd_gen, K)
    /\ assignments' = Zeros(Size(col))
    /\ new_means' = <<>> /\ counts' = <<>> /\ value' = <<>>
    /\ done' = FALSE
    /\ iter' = 0
    /\ pc' = IF LoopContinues(FALSE, 0, iter_num_) THEN "loop" ELSE "computed"
    /\ UNCHANGED ncalls
    /\ clusters' = <<>>
    /\ result' = <<>>
    /\ UNCHANGED <<params, centers_, apLocals>>

\* one iteration of the refinement loop
KM_Iterate ==
    /\ engine = "kmeans"
    /\ pc = "loop"
    /\ LET n == Size(col)
           asg == FindAssignments(dfunc_, col, k_means_, K)
           sums == [cluster \in 0..(K - 1) |-> SumUp(col, asg, cluster, n)]
           cnts == [cluster \in 0..(K - 1) |-> CountUp(asg, cluster, n)]
           val == [cluster \in 0..(K - 1) |->
                       NewValue(sums[cluster], cnts[cluster])]
           dn == \A cluster \in 0..(K - 1) :
                     ~Far(dfunc_, val[cluster], k_means_[cluster], n, res)
       IN  /\ assignments' = asg
           /\ new_means' = sums
           /\ counts' = cnts
           /\ value' = val
           /\ done' = dn
           /\ k_means_' = [cluster \in 0..(K - 1) |->
                  Adopt(dfunc_, val[cluster], k_means_[cluster], n, res)]
           /\ iter' = iter + 1
           /\ pc' = IF LoopContinues(dn, iter + 1, iter_num_)
                    THEN "loop" ELSE "computed"
    /\ UNCHANGED seeds
    /\ UNCHANGED <<params, centers_, apLocals, ncalls, clusters,
                   result>>

\* mutant: the query hands the centroids out and leaves zeros behind
KM_GetClusters_Moving ==
    /\ engine = "kmeans"
    /\ pc = "computed"
    /\ \E garbage \in 0..(K - 1) :
           clusters' = <<KMeansClusters(dfunc_, col, k_means_, K, garbage)>>
    /\ k_means_' = Zeros(K)
    /\ UNCHANGED <<params, pc, kmLocals, centers_, apLocals, ncalls, result>>

\* get_clusters: the partition of the column by nearest centroid
KM_GetClusters ==
    /\ engine = "kmeans"
    /\ pc = "computed"
    /\ \E garbage \in 0..(K - 1) :
           clusters' = <<KMeansClusters(dfunc_, col, k_means_, K, garbage)>>
    /\ UNCHANGED <<params, pc, k_means_, kmLocals, centers_, apLocals, ncalls,
                   result>>

KM_GetResult ==
    /\ engine = "kmeans"
    /\ pc = "computed"
    /\ result' = <<k_means_>>
    /\ UNCHANGED <<params, pc, k_means_, kmLocals, centers_, apLocals, ncalls,
                   clusters>>

NextKMeans ==
    \/ KM_Compute
    \/ KM_Iterate
    \/ KM_GetClusters
    \/ KM_GetResult

\* ---- AffinityPropVisitor::get_similarity_

\* offset of entry (i, j) in the packed triangular matrix
Offset(i, j, n) == (i * n) + j - ((i * (i + 1)) \div 2)

\* the loops over the pairs i < j, from pair (i, j) on: <<simil, min_val>>
RECURSIVE SimilPairs(_, _, _, _, _, _)
SimilPairs(f, c, i, j, sim, min_val) ==
    IF i >= Size(c) - 1 THEN <<sim, min_val>>
    ELSE IF j >= Size(c) THEN SimilPairs(f, c, i + 1, i + 2, sim, min_val)
    ELSE LET val == 0 - Dfunc(f, c[i], c[j])
         IN  SimilPairs(f, c, i, j + 1,
                        [sim EXCEPT ![Offset(i, j, Size(c))] = val],
                        Min2(val, min_val))

\* the loop that assigns min_val to the diagonal, from row i on
RECURSIVE SimilDiag(_, _, _, _)
SimilDiag(n, i, sim, min_val) ==
    IF i >= n THEN sim
    ELSE SimilDiag(n, i + 1, [sim EXCEPT ![Offset(i, i, n)] = min_val],
                   min_val)

GetSimilarity(f, c) ==
    LET n == Size(c)
        pairs == SimilPairs(f, c, 0, 1, Zeros((n * (n + 1)) \div 2), DblMax)
    IN  SimilDiag(n, 0, pairs[1], pairs[2])

\* ---- AffinityPropVisitor::get_avail_and_respon

\* the similarity the rounds read for the ordered pair (i, j), in message units
SimilRead(sim, i, j, n, scale) == sim[Offset(i, j, n)] * scale

\* the two loops over jj < j and jj > j, from jj on
RECURSIVE MaxDiff(_, _, _, _, _, _, _, _)
MaxDiff(sim, av, i, j, n, scale, jj, max_diff) ==
    IF jj >= n THEN max_diff
    ELSE IF jj = j THEN MaxDiff(sim, av, i, j, n, scale, jj + 1, max_diff)
    ELSE MaxDiff(sim, av, i, j, n, scale, jj + 1,
                 Max2(max_diff, SimilRead(sim, i, jj, n, scale)
                                + av[(jj * n) + i]))

\* message units per distance unit
MessageScale(rounds) == Pow(DampDen, 2 * rounds)

\* (1.0 - dfactor_) * fresh + dfactor_ * old
Damp(d, fresh, old) == (((DampDen - d) * fresh) + (d * old)) \div DampDen

UpdateRespon(sim, av, re, n, d, scale) ==
    [k \in 0..((n * n) - 1) |->
        LET j == k \div n
            i == k % n
        IN  Damp(d,
                 SimilRead(sim, i, j, n, scale)
                 - MaxDiff(sim, av, i, j, n, scale, 0, 0 - DblMax),
                 re[k])]

\* sum of std::max(0.0, respon[j * csize + ii]) over the ii below "ii" that
\* are not in skip
RECURSIVE SumPositive(_, _, _, _, _)
SumPositive(re, j, n, skip, ii) ==
    IF ii = 0 THEN 0
    ELSE SumPositive(re, j, n, skip, ii - 1)
         + (IF (ii - 1) \in skip THEN 0 ELSE Max2(0, re[(j * n) + ii - 1]))

UpdateAvail(re, av, n, d) ==
    [k \in 0..((n * n) - 1) |->
        LET j == k \div n
            i == k % n
        IN  IF i = j
            THEN Damp(d, SumPositive(re, j, n, {i}, n), av[k])
            ELSE Damp(d,
                      Min2(0, re[(j * n) + j]
                              + SumPositive(re, j, n, {i, j}, n)),
                      av[k])]

\* ---- AffinityPropVisitor::operator() and get_clusters

\* the positions below i that pass the exemplar test, in increasing order
RECURSIVE Exemplars(_, _, _, _)
Exemplars(re, av, n, i) ==
    IF i = 0 THEN <<>>
    ELSE LET below == Exemplars(re, av, n, i - 1)
         IN  IF re[((i - 1) * n) + i - 1] + av[((i - 1) * n) + i - 1] > 0
             THEN Append(below, i - 1)
             ELSE below

\* the exemplar list after the selection loop: push_back on centers_
SelectCenters(old, re, av, n) == old \o Exemplars(re, av, n, n)

\* mutant: dist <= min_dist, a tie goes to the last exemplar
RECURSIVE APMinIdx_LastTie(_, _, _, _, _, _, _)
APMinIdx_LastTie(f, x, c, centers, i, min_dist, min_idx) ==
    IF i >= Len(centers) THEN min_idx
    ELSE LET dist == Dfunc(f, x, c[centers[i + 1]])
         IN  IF dist <= min_dist
             THEN APMinIdx_LastTie(f, x, c, centers, i + 1, dist, i)
             ELSE APMinIdx_LastTie(f, x, c, centers, i + 1, min_dist, min_idx)

\* the inner loop over the exemplars; min_idx is not initialised by the code
RECURSIVE APMinIdx(_, _, _, _, _, _, _)
APMinIdx(f, x, c, centers, i, min_dist, min_idx) ==
    IF i >= Len(centers) THEN min_idx
    ELSE LET dist == Dfunc(f, x, c[centers[i + 1]])
         IN  IF dist < min_dist
             THEN APMinIdx(f, x, c, centers, i + 1, dist, i)
             ELSE APMinIdx(f, x, c, centers, i + 1, min_dist, min_idx)

RECURSIVE APPushPoints(_, _, _, _, _, _)
APPushPoints(f, c, centers, garbage, j, cl) ==
    IF j >= Size(c) THEN cl
    ELSE LET min_idx == APMinIdx(f, c[j], c, centers, 0, DblMax, garbage)
         IN  APPushPoints(f, c, centers, garbage, j + 1,
                          [cl EXCEPT ![min_idx] = Append(@, <<"col", j>>)])

AffinityClusters(f, c, centers, garbage) ==
    IF Len(centers) > 0
    THEN APPushPoints(f, c, centers, garbage, 0,
                      [i \in 0..(Len(centers) - 1) |-> <<>>])
    ELSE <<>>

InitAffinity ==
    /\ engine = "affinity"
    /\ K = 0
    /\ col \in Columns(APColVals, 2, MaxN)
    /\ res = 1
    /\ iter_num_ \in 1..MaxRounds
    /\ dfactor_ \in Dampings
    /\ k_means_ = <<>>
    /\ InitCommon

\* operator() up to the first round: the similarity matrix and the zeroed
\* message matrices
AP_Compute ==
    /\ engine = "affinity"
    /\ pc \in {"constructed", "computed"}
    /\ ncalls < MaxCalls
    /\ simil' = GetSimilarity(dfunc_, col)
    /\ avail' = Zeros(Size(col) * Size(col))
    /\ respon' = Zeros(Size(col) * Size(col))
    /\ m' = 0
    /\ pc' = "rounds"
    /\ ncalls' = ncalls + 1
    /\ clusters' = <<>>
    /\ result' = <<>>
    /\ UNCHANGED <<params, k_means_, kmLocals, centers_>>

\* one round of message passing
AP_Round ==
    /\ engine = "affinity"
    /\ pc = "rounds"
    /\ m < iter_num_
    /\ LET n == Size(col)
           re == UpdateRespon(simil, avail, respon, n, dfactor_,
                              MessageScale(iter_num_))
       IN  /\ respon' = re
           /\ avail' = UpdateAvail(re, avail, n, dfactor_)
    /\ m' = m + 1
    /\ UNCHANGED <<params, pc, k_means_, kmLocals, centers_, simil, ncalls,
                   clusters, result>>

\* the rest of operator(): the exemplar selection
AP_Select ==
    /\ engine = "affinity"
    /\ pc = "rounds"
    /\ m >= iter_num_
    /\ centers_' = SelectCenters(centers_, respon, avail, Size(col))
    /\ pc' = "computed"
    /\ UNCHANGED <<params, k_means_, kmLocals, apLocals, ncalls, clusters,
                   result>>

AP_GetClusters ==
    /\ engine = "affinity"
    /\ pc = "computed"
    /\ \E garbage \in 0..Max2(0, Len(centers_) - 1) :
           clusters' = <<AffinityClusters(dfunc_, col, centers_, garbage)>>
    /\ UNCHANGED <<params, pc, k_means_, kmLocals, centers_, apLocals, ncalls,
                   result>>

AP_GetResult ==
    /\ engine = "affinity"
    /\ pc = "computed"
    /\ result' = <<centers_>>
    /\ UNCHANGED <<params, pc, k_means_, kmLocals, centers_, apLocals, ncalls,
                   clusters>>

Init == InitKMeans \/ InitAffinity

Next ==
    \/ KM_Compute
    \/ KM_Iterate
    \/ KM_GetClusters
    \/ KM_GetResult
    \/ AP_Compute
    \/ AP_Round
    \/ AP_Select
    \/ AP_GetClusters
    \/ AP_GetResult

Spec == Init /\ [][Next]_vars

\* the refinement loop cannot be suspended: an iteration that is due runs
FairSpec == Spec /\ WF_vars(KM_Iterate)

\* Scenario A of the specification: column [0,0,0,10,10,10], K = 2, the
\* default distance, 10 iterations
ScenarioAColumn == [i \in 0..5 |-> IF i < 3 THEN 0 ELSE 10]

InitScenarioA ==
    /\ engine = "kmeans"
    /\ K = 2
    /\ col = Scaled(ScenarioAColumn)
    /\ res = 1
    /\ iter_num_ = 10
    /\ dfunc_ = "sq"
    /\ dfactor_ = 0
    /\ k_means_ = Zeros(K)
    /\ pc = "constructed"
    /\ assignments = <<>> /\ new_means = <<>> /\ counts = <<>>
    /\ value = <<>> /\ done = FALSE /\ iter = 0 /\ seeds = <<>>
    /\ centers_ = <<>>
    /\ simil = <<>> /\ avail = <<>> /\ respon = <<>> /\ m = 0
    /\ ncalls = 0
    /\ clusters = <<>>
    /\ result = <<>>

SpecScenarioA == InitScenarioA /\ [][NextKMeans]_vars

\* ======================================================================
\* Claims
\* ======================================================================

IsKMeans == engine = "kmeans"
IsAffinity == engine = "affinity"
Clusters01 == 0..(K - 1)
Positions == DOMAIN col

\* the <<group, slot>> places of a returned partition that hold entry e
PlacesOf(cl, e) ==
    {gs \in UNION {{<<g, s>> : s \in 1..Len(cl[g])} : g \in DOMAIN cl} :
        cl[gs[1]][gs[2]] = e}

\* the point entries of group g: everything after the centroid entry
PointEntries(cl, g) == {cl[g][s] : s \in 2..Len(cl[g])}

\* C1: after compute with n >= K >= 1, KMeansVisitor::get_clusters returns
\* exactly K groups, each starting with the pointer to its own centroid, and
\* the entries after it are the column positions 0..n-1, every position in
\* exactly one place of exactly one group.
C1_Partition ==
    (IsKMeans /\ pc = "computed" /\ clusters # <<>>) =>
        LET cl == clusters[1]
        IN  /\ DOMAIN cl = Clusters01
            /\ \A g \in Clusters01 :
                   /\ Len(cl[g]) >= 1
                   /\ cl[g][1] = <<"mean", g>>
                   /\ \A s \in 2..Len(cl[g]) :
                          cl[g][s] \in {<<"col", j>> : j \in Positions}
            /\ \A j \in Positions :
                   Cardinality(PlacesOf(cl, <<"col", j>>)) = 1

\* a query answered with a degenerate centroid set: one group is empty
C1_Witness ==
    /\ IsKMeans /\ pc = "computed" /\ clusters # <<>>
    /\ K = 2 /\ Size(col) = 3
    /\ \E g \in Clusters01 : Len(clusters[1][g]) = 1
    /\ \E g \in Clusters01 : Len(clusters[1][g]) = 4

\* the partition get_clusters computes from the centroids stored now
PartitionNow == KMeansClusters(dfunc_, col, k_means_, K, 0)

\* every group holds exactly one point, and its centroid is that point's value
OnePointEach(cl) ==
    \A g \in Clusters01 :
        /\ Len(cl[g]) = 2
        /\ cl[g][2][1] = "col"
        /\ k_means_[g] = col[cl[g][2][2]]

\* the K seeds hit positions that hold K different values
DistinctSeeds ==
    \A a, b \in Clusters01 : a # b => col[seeds[a]] # col[seeds[b]]

\* C4 as stated: with effective size K, for every choice of the seeds and
\* every column, from the end of the first iteration on each cluster has
\* exactly one point and each centroid equals that point's value, and so
\* does every partition get_clusters returns.
C4_Original ==
    (IsKMeans /\ Size(col) = K /\ iter >= 1) =>
        /\ OnePointEach(PartitionNow)
        /\ (clusters # <<>> => OnePointEach(clusters[1]))

\* C4 amended: the same, provided the K seeds hit K different values; the
\* loop then stops after its first iteration.
C4_Amended ==
    (IsKMeans /\ Size(col) = K /\ iter >= 1 /\ DistinctSeeds) =>
        /\ OnePointEach(PartitionNow)
        /\ (clusters # <<>> => OnePointEach(clusters[1]))
        /\ iter = 1 /\ done /\ pc = "computed"

C4_Witness ==
    /\ IsKMeans /\ K = 2 /\ Size(col) = K
    /\ pc = "computed" /\ clusters # <<>>
    /\ DistinctSeeds
    /\ seeds[0] = 1 /\ seeds[1] = 0

\* C5: for column [0,0,0,10,10,10], K = 2, the default distance and a cap of
\* 10 iterations, every choice of seeds ends with the centroids {0, 10}, and
\* get_clusters returns two groups of a centroid entry and three points: the
\* three 0s with the centroid 0, the three 10s with the centroid 10.
C5_ScenarioA ==
    (IsKMeans /\ pc = "computed") =>
        /\ {k_means_[g] : g \in Clusters01} = {0, 10 * Den(Size(col))}
        /\ clusters # <<>> =>
               \A g \in Clusters01 :
                   /\ Len(clusters[1][g]) = 4
                   /\ clusters[1][g][1] = <<"mean", g>>
                   /\ PointEntries(clusters[1], g) =
                          IF k_means_[g] = 0
                          THEN {<<"col", j>> : j \in 0..2}
                          ELSE {<<"col", j>> : j \in 3..5}

\* both seeds on a 10: the run passes through an empty cluster
C5_Witness ==
    /\ IsKMeans /\ pc = "computed" /\ clusters # <<>>
    /\ seeds[0] = 3 /\ seeds[1] = 4
    /\ iter = 3

\* C9 as stated: after an iteration that does not stop the loop, every
\* stored centroid equals the mean computed for its cluster in it.
C9_Original ==
    (IsKMeans /\ pc = "loop" /\ iter >= 1) =>
        \A g \in Clusters01 : k_means_[g] = value[g]

C9_AdoptStep ==
    (IsKMeans /\ iter' = iter + 1 /\ ~done') =>
        \A g \in Clusters01 :
            k_means_'[g] =
                IF Dfunc(dfunc_, value'[g], k_means_[g])
                       > EpsUnits(dfunc_, Size(col), res)
                THEN value'[g]
                ELSE k_means_[g]

\* C9 amended: in an iteration that does not stop the loop, a centroid whose
\* new mean is farther than 1e-7 from it is replaced by that mean, and every
\* other centroid keeps its old value.
C9_Amended == [][C9_AdoptStep]_vars

\* the loop goes on with one centroid moved and another one kept although
\* its mean differs from it
C9_Witness ==
    /\ IsKMeans /\ pc = "loop" /\ iter >= 1
    /\ \E g \in Clusters01 : k_means_[g] # value[g]
    /\ \E g \in Clusters01 : k_means_[g] = value[g] /\ counts[g] > 0

\* the points an iteration assigned to cluster g
PointsOf(g) == {p \in Positions : assignments[p] = g}

RECURSIVE SetSum(_)
SetSum(ps) ==
    IF ps = {} THEN 0
    ELSE LET p == CHOOSE q \in ps : TRUE IN col[p] + SetSum(ps \ {p})

\* C10: a cluster that received no point in an iteration gets the new
\* centroid 0 (the empty sum divided by 1), and every other cluster's new
\* centroid is the sum of its own points divided by their number.
C10_ZeroCount ==
    (IsKMeans /\ iter >= 1) =>
        \A g \in Clusters01 :
            /\ counts[g] = Cardinality(PointsOf(g))
            /\ new_means[g] = SetSum(PointsOf(g))
            /\ counts[g] = 0 => value[g] = 0
            /\ counts[g] > 0 => value[g] * counts[g] = SetSum(PointsOf(g))

\* an iteration with an empty cluster next to a cluster of several points
\* whose mean is none of them
C10_Witness ==
    /\ IsKMeans /\ iter >= 1
    /\ \E g \in Clusters01 : counts[g] = 0 /\ col[seeds[g]] # 0
    /\ \E g \in Clusters01 :
           counts[g] > 1 /\ \A p \in Positions : col[p] # value[g]

\* every cluster's new centroid is within 1e-7 of the old one
AllWithinEps(new, old) ==
    \A g \in Clusters01 :
        Dfunc(dfunc_, new[g], old[g]) <= EpsUnits(dfunc_, Size(col), res)

C8_Inv ==
    IsKMeans =>
        /\ iter <= iter_num_
        /\ pc = "loop" => /\ iter < iter_num_
                          /\ iter >= 1 => ~done
        /\ pc = "computed" => (done \/ iter = iter_num_)

C8_Step ==
    (IsKMeans /\ pc = "loop") =>
        /\ iter' = iter + 1
        /\ done' <=> AllWithinEps(value', k_means_)
        /\ pc' = IF done' \/ iter' = iter_num_ THEN "computed" ELSE "loop"

\* C8: the refinement loop terminates and never runs more than iter_num_
\* iterations: inside the loop iter < iter_num_, every step taken there is
\* one iteration that counts iter up, the loop stops right after the first
\* iteration in which every centroid moved by at most 1e-7, and otherwise
\* after exactly iter_num_ iterations.
C8_Terminates == []C8_Inv /\ [][C8_Step]_vars

\* the same termination as a leads-to, under the fairness of FairSpec
C8_LeadsTo == (pc = "loop") ~> (pc = "computed")

\* a run that used up the cap without converging
C8_Witness ==
    /\ IsKMeans /\ pc = "computed" /\ ~done /\ iter = iter_num_ /\ iter >= 2

C7_QueryStep ==
    (pc = "computed" /\ pc' = "computed") =>
        /\ k_means_' = k_means_
        /\ centers_' = centers_
        /\ clusters # <<>> => clusters' = clusters

\* C7: the queries do not change the instance and are idempotent: a step
\* from the computed state to the computed state (a get_clusters or a
\* get_result call) leaves the centroid and exemplar sets as they are, and a
\* get_clusters call that follows another one returns the same partition.
C7_Queries == [][C7_QueryStep]_vars

\* both queries have answered, on an instance with centroids or exemplars
C7_Witness ==
    /\ pc = "computed" /\ clusters # <<>> /\ result # <<>>
    /\ IsAffinity => Len(centers_) >= 1
    /\ IsKMeans => K >= 2

\* C2 as stated: after any sequence of compute calls the exemplar list is
\* the list of the positions i with r(i,i) + a(i,i) > 0 of the last call, in
\* increasing order, with nothing left over from earlier calls.
C2_FreshExemplars ==
    (IsAffinity /\ pc = "computed") =>
        centers_ = Exemplars(respon, avail, Size(col), Size(col))

\* C3 as stated: the similarity the rounds read for the ordered pair (i, j)
\* is symmetric and equals -dfunc(col[i], col[j]) off the diagonal, and every
\* diagonal entry is the smallest off-diagonal similarity.
C3_Symmetric ==
    (IsAffinity /\ pc = "rounds") =>
        LET n == Size(col)
            s(i, j) == SimilRead(simil, i, j, n, 1)
        IN  /\ \A i, j \in Positions :
                   i # j => /\ s(i, j) = s(j, i)
                            /\ s(i, j) = 0 - Dfunc(dfunc_, col[i], col[j])
            /\ \A i \in Positions :
                   /\ \A a, b \in Positions : a # b => s(i, i) <= s(a, b)
                   /\ \E a, b \in Positions : a # b /\ s(i, i) = s(a, b)

\* the exemplar a point belongs to: the first of the nearest ones
NearestExemplar(j) ==
    CHOOSE g \in 0..(Len(centers_) - 1) :
        /\ \A h \in 0..(Len(centers_) - 1) :
               Dfunc(dfunc_, col[j], col[centers_[g + 1]])
                   <= Dfunc(dfunc_, col[j], col[centers_[h + 1]])
        /\ \A h \in 0..(g - 1) :
               Dfunc(dfunc_, col[j], col[centers_[g + 1]])
                   < Dfunc(dfunc_, col[j], col[centers_[h + 1]])

\* C6: AffinityPropVisitor::get_clusters returns an empty list when there is
\* no exemplar; otherwise it returns one group per exemplar entry and puts
\* every position 0..n-1 in exactly one place, in the group of the nearest
\* exemplar, the first one among equally near ones.
C6_NearestExemplar ==
    (IsAffinity /\ pc = "computed" /\ clusters # <<>>) =>
        LET cl == clusters[1]
        IN  IF Len(centers_) = 0
            THEN cl = <<>>
            ELSE /\ DOMAIN cl = 0..(Len(centers_) - 1)
                 /\ \A g \in DOMAIN cl : \A s \in 1..Len(cl[g]) :
                        cl[g][s] \in {<<"col", j>> : j \in Positions}
                 /\ \A j \in Positions :
                        PlacesOf(cl, <<"col", j>>)
                            \in {{<<NearestExemplar(j), s>>} :
                                    s \in 1..Size(col)}

\* a partition over several exemplar entries with a point equally near to
\* two of them
C6_Witness ==
    /\ IsAffinity /\ pc = "computed" /\ clusters # <<>>
    /\ Len(centers_) >= 2
    /\ \E j \in Positions : \E g, h \in 0..(Len(centers_) - 1) :
           /\ g < h
           /\ NearestExemplar(j) = g
           /\ Dfunc(dfunc_, col[j], col[centers_[g + 1]])
                  = Dfunc(dfunc_, col[j], col[centers_[h + 1]])
    /\ \E g, h \in 0..(Len(centers_) - 1) :
           col[centers_[g + 1]] # col[centers_[h + 1]]

====
